---- MODULE Spec2Model ----
(***************************************************************************)
(* Model of policy_head.py: ActionArgHead (a cross-attention style scorer) *)
(* and GenshinVAC (critic head, action-type head, per-action argument      *)
(* heads, and the forward / compute_actor / compute_critic /               *)
(* compute_actor_critic entry points).                                     *)
(*                                                                         *)
(* Tensors are records [shape, data] with the data flattened row-major and *)
(* integer valued.  Every Python statement that can raise is modelled as a *)
(* step that either yields a value or ends the call with the exception the *)
(* interpreter / torch raises there.  Python runs with assertions enabled. *)
(***************************************************************************)
EXTENDS Integers, Sequences, FiniteSets, TLC

VARIABLES self, head, last

vars == <<self, head, last>>

(***************************************************************************)
(* Bounds of the model.                                                    *)
(***************************************************************************)
\* largest size of any tensor dimension (batch, arguments, features, hidden)
MaxDim == 2
\* number of distinct weight initialisations
MaxSeed == 2

\* largest batch size and largest number of arguments of an input
MaxBatch == 2
MaxArgs == 2

Dims == 1..MaxDim
Seeds == 0..(MaxSeed - 1)
Batches == 1..MaxBatch
ArgCounts == 1..MaxArgs

(***************************************************************************)
(* Tensors.                                                                *)
(***************************************************************************)
RECURSIVE Prod(_)
Prod(s) == IF s = <<>> THEN 1 ELSE Head(s) * Prod(Tail(s))

RECURSIVE SumSeq(_)
SumSeq(s) == IF s = <<>> THEN 0 ELSE Head(s) + SumSeq(Tail(s))

Reverse(s) == [i \in 1..Len(s) |-> s[Len(s) + 1 - i]]

NoTensor == [shape |-> <<0>>, data |-> <<>>]

Numel(t) == Prod(t.shape)

\* zero-based multi-index of the zero-based flat position k in a tensor of shape s
Unflatten(k, s) ==
    [i \in 1..Len(s) |-> (k \div Prod(SubSeq(s, i + 1, Len(s)))) % s[i]]

\* zero-based flat position of the zero-based multi-index idx
Flatten(idx, s) ==
    SumSeq([i \in 1..Len(s) |-> idx[i] * Prod(SubSeq(s, i + 1, Len(s)))])

OkT(t) == [ok |-> TRUE, err |-> "", t |-> t]
ErrT(e) == [ok |-> FALSE, err |-> e, t |-> NoTensor]

\* weight and bias entries of a linear layer, as initialised from a seed
Wv(seed, tag, o, i) == ((seed + tag + 2 * o + i) % 3) - 1
Bv(seed, tag, o) == (seed + tag + o) % 2

\* nn.Linear(in, out) applied to x: acts on the last dimension
Linear(in, out, seed, tag, x) ==
    IF x.shape = <<>> \/ x.shape[Len(x.shape)] # in
    THEN ErrT("RuntimeError")
    ELSE LET shp == SubSeq(x.shape, 1, Len(x.shape) - 1) \o <<out>>
             n == Prod(shp)
         IN OkT([shape |-> shp,
                 data |-> [k \in 1..n |->
                     LET row == (k - 1) \div out
                         o == (k - 1) % out
                     IN Bv(seed, tag, o)
                        + SumSeq([i \in 1..in |->
                              Wv(seed, tag, o, i - 1) * x.data[row * in + i]])]])

\* the default activation, nn.ReLU()
ReLU(x) == [shape |-> x.shape,
            data |-> [k \in 1..Len(x.data) |-> IF x.data[k] > 0 THEN x.data[k] ELSE 0]]

\* a + b with torch broadcasting
BroadcastShape(a, b) ==
    LET n == IF Len(a) > Len(b) THEN Len(a) ELSE Len(b)
        pa == [i \in 1..n |-> IF i <= n - Len(a) THEN 1 ELSE a[i - (n - Len(a))]]
        pb == [i \in 1..n |-> IF i <= n - Len(b) THEN 1 ELSE b[i - (n - Len(b))]]
    IN [ok |-> \A i \in 1..n : pa[i] = pb[i] \/ pa[i] = 1 \/ pb[i] = 1,
        pa |-> pa, pb |-> pb,
        shape |-> [i \in 1..n |-> IF pa[i] = 1 THEN pb[i] ELSE pa[i]]]

Add(a, b) ==
    LET bs == BroadcastShape(a.shape, b.shape)
    IN IF ~bs.ok THEN ErrT("RuntimeError")
       ELSE LET n == Prod(bs.shape)
                At(t, p, idx) ==
                    t.data[1 + Flatten([i \in 1..Len(p) |-> IF p[i] = 1 THEN 0 ELSE idx[i]], p)]
            IN OkT([shape |-> bs.shape,
                    data |-> [k \in 1..n |->
                        LET idx == Unflatten(k - 1, bs.shape)
                        IN At(a, bs.pa, idx) + At(b, bs.pb, idx)]])

\* t.unsqueeze(1)
Unsqueeze1(t) ==
    IF Len(t.shape) < 1 THEN ErrT("IndexError")
    ELSE OkT([shape |-> <<t.shape[1], 1>> \o Tail(t.shape), data |-> t.data])

\* t.T: the dimensions reversed (a transpose for a matrix; for any other rank
\* torch still reverses them, with a deprecation warning)
Transpose(t) ==
    LET shp == Reverse(t.shape)
    IN [shape |-> shp,
        data |-> [k \in 1..Len(t.data) |->
            t.data[1 + Flatten(Reverse(Unflatten(k - 1, shp)), t.shape)]]]

\* torch.mm(a, b): both operands must be matrices (2-D), of matching inner size
Mm(a, b) ==
    IF Len(a.shape) # 2 \/ Len(b.shape) # 2 THEN ErrT("RuntimeError")
    ELSE IF a.shape[2] # b.shape[1] THEN ErrT("RuntimeError")
    ELSE LET n == a.shape[1]
             m == a.shape[2]
             p == b.shape[2]
         IN OkT([shape |-> <<n, p>>,
                 data |-> [k \in 1..(n * p) |->
                     LET r == (k - 1) \div p
                         c == (k - 1) % p
                     IN SumSeq([j \in 1..m |->
                            a.data[r * m + j] * b.data[(j - 1) * p + c + 1]])]])

\* t.squeeze(1)
Squeeze1(t) ==
    IF Len(t.shape) < 2 THEN ErrT("IndexError")
    ELSE IF t.shape[2] = 1
         THEN OkT([shape |-> <<t.shape[1]>> \o SubSeq(t.shape, 3, Len(t.shape)),
                   data |-> t.data])
         ELSE OkT(t)

(***************************************************************************)
(* ActionArgHead.                                                          *)
(***************************************************************************)
NoArgHead == [made |-> FALSE, F |-> 0, T |-> 0, H |-> 0, seed |-> 0]

\* ActionArgHead.__init__: W_k = nn.Linear(encoded_part_obs_shape, hidden_size),
\* W_q = nn.Linear(action_type_logit_shape, hidden_size); obs_embedding_shape is unused
ActionArgHead_init(encoded_part_obs_shape, obs_embedding_shape, action_type_logit_shape, hidden_size, seed) ==
    [made |-> TRUE, F |-> encoded_part_obs_shape, T |-> action_type_logit_shape,
     H |-> hidden_size, seed |-> seed]

W_k(h, x) == Linear(h.F, h.H, h.seed, 1, x)
W_q(h, x) == Linear(h.T, h.H, h.seed, 2, x)

\* ActionArgHead.forward
ActionArgHead_forward(h, obs_embedding, action_type_logit, encoded_part_obs) ==
    LET key == W_k(h, encoded_part_obs)
    IN IF ~key.ok THEN key
       ELSE LET q0 == W_q(h, action_type_logit)
            IN IF ~q0.ok THEN q0
               ELSE LET q1 == Add(q0.t, obs_embedding)
                    IN IF ~q1.ok THEN q1
                       ELSE LET query == Unsqueeze1(q1.t)
                            IN IF ~query.ok THEN query
                               ELSE LET logit == Mm(query.t, Transpose(key.t))
                                    IN IF ~logit.ok THEN logit
                                       ELSE Squeeze1(logit.t)

(***************************************************************************)
(* Python values and call outcomes.                                        *)
(***************************************************************************)
\* an argument that is a tensor, and one that is a dict
TensorArg(t) == [kind |-> "tensor", t |-> t]
DictArg == [kind |-> "dict", t |-> NoTensor]

\* the outcome of a call: a returned dict (keys, and the entries it holds) or the
\* exception raised, with the heads evaluated up to that point
Return(keys, action_type, action_args, value, ev) ==
    [ok |-> TRUE, err |-> "", msg |-> <<>>, keys |-> keys,
     action_type |-> action_type, action_args |-> action_args,
     value |-> value, evaluated |-> ev]

Raise(err, msg, ev) ==
    [ok |-> FALSE, err |-> err, msg |-> msg, keys |-> {},
     action_type |-> -1, action_args |-> -1, value |-> NoTensor, evaluated |-> ev]

NoCall == Raise("", <<>>, <<>>)

(***************************************************************************)
(* Name resolution.  A bare name in a method body is looked up in the      *)
(* function's locals, then in the module's globals (the imports and the    *)
(* two classes); class attributes are not in scope.                        *)
(***************************************************************************)
ModuleGlobals ==
    {"Union", "Dict", "Optional", "EasyDict", "torch", "nn", "deepcopy",
     "SequenceType", "squeeze", "MODEL_REGISTRY", "ReparameterizationHead",
     "RegressionHead", "DiscreteHead", "MultiHead", "FCEncoder", "ConvEncoder",
     "IMPALAConvEncoder", "ActionSpace", "ActionType", "ActionArgHead", "GenshinVAC"}

NameBound(name, locals) == name \in (locals \cup ModuleGlobals)

NameError(name, ev) == Raise("NameError", <<"name", name, "is not defined">>, ev)

(***************************************************************************)
(* The head modules of the library: an MLP of layer_num (Linear, ReLU)     *)
(* blocks of width hidden_size followed by Linear(hidden_size, output).    *)
(***************************************************************************)
NoHead == [hidden |-> 0, out |-> 0, layers |-> 0, seed |-> 0]

RECURSIVE MLP(_, _, _)
MLP(h, x, l) ==
    IF l = 0 THEN OkT(x)
    ELSE LET r == MLP(h, x, l - 1)
         IN IF ~r.ok THEN r
            ELSE LET y == Linear(h.hidden, h.hidden, h.seed, 10 + l, r.t)
                 IN IF ~y.ok THEN y ELSE OkT(ReLU(y.t))

\* RegressionHead(hidden_size, output_size, layer_num).forward(x)['pred']
RegressionHead_forward(h, v) ==
    IF v.kind # "tensor" THEN ErrT("TypeError")
    ELSE LET r == MLP(h, v.t, h.layers)
         IN IF ~r.ok THEN r
            ELSE LET y == Linear(h.hidden, h.out, h.seed, 20, r.t)
                 IN IF ~y.ok THEN y
                    ELSE IF y.t.shape[Len(y.t.shape)] = 1 /\ Len(y.t.shape) > 1
                         THEN OkT([shape |-> SubSeq(y.t.shape, 1, Len(y.t.shape) - 1),
                                   data |-> y.t.data])
                         ELSE y

\* DiscreteHead(hidden_size, output_size, layer_num).forward(x)['logit']
DiscreteHead_forward(h, v) ==
    IF v.kind # "tensor" THEN ErrT("TypeError")
    ELSE LET r == MLP(h, v.t, h.layers)
         IN IF ~r.ok THEN r
            ELSE Linear(h.hidden, h.out, h.seed, 30, r.t)

(***************************************************************************)
(* torch selection primitives.                                             *)
(***************************************************************************)
OkI(i) == [ok |-> TRUE, err |-> "", i |-> i]
ErrI(e) == [ok |-> FALSE, err |-> e, i |-> -1]

\* t.item(): only a one-element tensor converts to a Python scalar (the error is
\* a RuntimeError in torch 2, a ValueError before)
Item(t) == IF Numel(t) # 1 THEN ErrI("RuntimeError") ELSE OkI(t.data[1])

\* zero-based position of the first maximum of a non-empty sequence
ArgmaxSeq(d) ==
    (CHOOSE k \in 1..Len(d) :
        /\ \A j \in 1..Len(d) : d[j] <= d[k]
        /\ \A j \in 1..(k - 1) : d[j] < d[k]) - 1

\* torch.argmax(t): over the flattened tensor, a 0-dim result
Argmax(t) ==
    IF Numel(t) = 0 THEN ErrT("RuntimeError")
    ELSE OkT([shape |-> <<>>, data |-> <<ArgmaxSeq(t.data)>>])

\* torch.argmax(t, 1): the position of the first maximum along dimension 1, for
\* every index of the other dimensions; a tensor of rank below 2 has no dimension 1
ArgmaxDim1(t) ==
    IF Len(t.shape) < 2 THEN ErrT("IndexError")
    ELSE LET shp == <<t.shape[1]>> \o SubSeq(t.shape, 3, Len(t.shape))
             Along(idx) == [j \in 1..t.shape[2] |->
                 t.data[1 + Flatten(<<idx[1], j - 1>> \o Tail(idx), t.shape)]]
         IN IF t.shape[2] = 0 THEN ErrT("IndexError")
            ELSE OkT([shape |-> shp,
                      data |-> [k \in 1..Prod(shp) |-> ArgmaxSeq(Along(Unflatten(k - 1, shp)))]])

\* torch.multinomial(t, 1): one index per row, drawn with probability proportional
\* to the entries, which must be non-negative with a positive sum per row.  The
\* random generator is a nondeterministic choice: the operator yields the set of
\* all results a call can return, every row drawing any position of positive
\* weight independently of the other rows and of any other call
Multinomial(t) ==
    IF Len(t.shape) \notin {1, 2} THEN {ErrT("RuntimeError")}
    ELSE LET rows == IF Len(t.shape) = 1 THEN 1 ELSE t.shape[1]
             w == t.shape[Len(t.shape)]
             Row(r) == SubSeq(t.data, (r - 1) * w + 1, r * w)
         IN IF Numel(t) = 0 THEN {ErrT("RuntimeError")}
            ELSE IF \E k \in 1..Len(t.data) : t.data[k] < 0 THEN {ErrT("RuntimeError")}
            ELSE IF \E r \in 1..rows : \A k \in 1..w : Row(r)[k] = 0
                 THEN {ErrT("RuntimeError")}
            ELSE {OkT([shape |-> IF Len(t.shape) = 1 THEN <<1>> ELSE <<rows, 1>>,
                       data |-> d]) :
                     d \in {f \in [1..rows -> 0..(w - 1)] :
                               \A r \in 1..rows : Row(r)[f[r] + 1] > 0}}

(***************************************************************************)
(* GenshinVAC: class attributes.                                           *)
(***************************************************************************)
\* GenshinVAC.mode
mode == <<"compute_actor", "compute_critic", "compute_actor_critic">>

\* the non-callable, non-dunder attributes of ActionType and their values
ActionType ==
    [a \in {"play_card", "use_skill", "change_character", "elemental_harmony", "end_round"} |->
        CASE a = "play_card" -> 0
          [] a = "use_skill" -> 1
          [] a = "change_character" -> 2
          [] a = "elemental_harmony" -> 3
          [] a = "end_round" -> 4]

ActionNames == DOMAIN ActionType

\* GenshinVAC.action_type_names: {getattr(ActionType, attr): attr for attr in dir(ActionType) ...}
action_type_names ==
    [v \in {ActionType[a] : a \in ActionNames} |-> CHOOSE a \in ActionNames : ActionType[a] = v]

\* GenshinVAC.action_obs_name_map
action_obs_name_map ==
    [a \in {"play_card", "use_skill", "change_character"} |->
        CASE a = "play_card" -> "card_obs"
          [] a = "use_skill" -> "skill_obs"
          [] a = "change_character" -> "character_obs"]

ObsKeys == {"card_obs", "skill_obs", "character_obs"}

\* the names for which __init__ builds no argument head
Excluded == {"elemental_harmony", "end_round"}

\* default of the constructor parameter critic_head_layer_num
critic_head_layer_num == 1
\* the value the commented-out constructor parameter actor_head_layer_num would default to
actor_head_layer_num == 1

(***************************************************************************)
(* GenshinVAC.__init__                                                     *)
(***************************************************************************)
\* no instance: nothing allocated
Blank ==
    [alloc |-> FALSE, attrs |-> {}, obs_embedding_shape |-> 0, action_shape |-> 0,
     critic_head |-> NoHead, actor_action_type |-> NoHead,
     actor_action_args |-> [a \in ActionNames |-> NoArgHead]]

InitLocals ==
    {"self", "obs_embedding_shape", "action_shape", "action_space", "encoded_obs_shape",
     "critic_head_hidden_size", "critic_head_layer_num", "activation", "norm_type"}

\* runs __init__ on a freshly allocated instance; yields the instance as the body
\* left it and the outcome of the call.  p holds the constructor arguments:
\* obs_embedding_shape, action_shape, n = action_space['action_type_space'].n,
\* arg_names = the keys of action_space['action_arg_space'], encoded_obs_shape
\* (keys, F) and critic_head_hidden_size; seed stands for the weight initialisation
GenshinVAC_init(p, seed) ==
    LET s1 == [Blank EXCEPT !.alloc = TRUE,
                            !.attrs = {"obs_embedding_shape", "action_shape"},
                            !.obs_embedding_shape = p.obs_embedding_shape,
                            !.action_shape = p.action_shape]
        s2 == [s1 EXCEPT !.attrs = @ \cup {"critic_head"},
                         !.critic_head = [hidden |-> p.critic_head_hidden_size, out |-> 1,
                                          layers |-> critic_head_layer_num, seed |-> seed]]
        s3 == [s2 EXCEPT !.attrs = @ \cup {"actor_action_type"},
                         !.actor_action_type = [hidden |-> p.obs_embedding_shape, out |-> p.n,
                                                layers |-> actor_head_layer_num, seed |-> seed]]
        named == p.arg_names \ Excluded
        s4 == [s3 EXCEPT !.attrs = @ \cup {"actor_action_args", "actor"},
                         !.actor_action_args = [a \in ActionNames |->
                             IF a \in named
                             THEN ActionArgHead_init(
                                      p.encoded_obs_shape.F[action_obs_name_map[a]],
                                      p.obs_embedding_shape, p.n, p.obs_embedding_shape, seed)
                             ELSE NoArgHead]]
    IN IF ~NameBound("actor_head_layer_num", InitLocals)
       THEN [self |-> s2, out |-> NameError("actor_head_layer_num", <<>>)]
       ELSE IF named # {} /\ ~NameBound("action_obs_name_map", InitLocals \cup {"action_name"})
       THEN [self |-> s3, out |-> NameError("action_obs_name_map", <<>>)]
       ELSE IF \E a \in named : a \notin DOMAIN action_obs_name_map
       THEN [self |-> s3, out |-> Raise("KeyError", <<"action_obs_name_map">>, <<>>)]
       ELSE IF \E a \in named : action_obs_name_map[a] \notin p.encoded_obs_shape.keys
       THEN [self |-> s3, out |-> Raise("KeyError", <<"encoded_obs_shape">>, <<>>)]
       ELSE [self |-> s4, out |-> Return({}, -1, -1, NoTensor, <<>>)]

(***************************************************************************)
(* GenshinVAC.compute_critic                                               *)
(***************************************************************************)
AttributeError(name, ev) ==
    Raise("AttributeError", <<"'GenshinVAC' object has no attribute", name>>, ev)

compute_critic(s, obs_embedding) ==
    IF "critic_head" \notin s.attrs THEN AttributeError("critic_head", <<>>)
    ELSE LET x == RegressionHead_forward(s.critic_head, obs_embedding)
         IN IF ~x.ok THEN Raise(x.err, <<>>, <<"critic_head">>)
            ELSE Return({"value"}, -1, -1, x.t, <<"critic_head">>)

(***************************************************************************)
(* GenshinVAC.compute_actor                                                *)
(***************************************************************************)
ActorLocals == {"self", "obs_embedding", "encoded_obs", "sample_action_type"}

\* lines 124-143, the action type having been selected as sel: the lookups, the
\* argument head, the selection of the argument (line 131 / 141) and the return
actor_select_args(s, obs_embedding, encoded_obs, sample_action_type, action_type_logit, sel, ev) ==
    LET it == Item(sel.t)
        action_type == it.i
        select_action_name == action_type_names[action_type]
        select_encoded_obs_name == action_obs_name_map[select_action_name]
        ev2 == Append(ev, select_action_name)
        action_args_logit == ActionArgHead_forward(
                                 s.actor_action_args[select_action_name],
                                 obs_embedding.t, action_type_logit,
                                 encoded_obs.t[select_encoded_obs_name])
    IN IF ~sel.ok THEN {Raise(sel.err, <<>>, ev)}
       ELSE IF ~it.ok THEN {Raise(it.err, <<>>, ev)}
       ELSE IF ~NameBound("action_type_names", ActorLocals)
       THEN {NameError("action_type_names", ev)}
       ELSE IF action_type \notin DOMAIN action_type_names
       THEN {Raise("KeyError", <<"action_type_names">>, ev)}
       ELSE IF ~NameBound("action_obs_name_map", ActorLocals)
       THEN {NameError("action_obs_name_map", ev)}
       ELSE IF select_action_name \notin DOMAIN action_obs_name_map
       THEN {Raise("KeyError", <<"action_obs_name_map">>, ev)}
       ELSE IF "actor_action_args" \notin s.attrs
       THEN {AttributeError("actor_action_args", ev)}
       ELSE IF ~s.actor_action_args[select_action_name].made
       THEN {Raise("KeyError", <<"actor_action_args">>, ev)}
       ELSE IF select_encoded_obs_name \notin encoded_obs.keys
       THEN {Raise("KeyError", <<"encoded_obs">>, ev)}
       ELSE IF ~action_args_logit.ok THEN {Raise(action_args_logit.err, <<>>, ev2)}
       ELSE {IF ~asel.ok THEN Raise(asel.err, <<>>, ev2)
             ELSE IF ~Item(asel.t).ok THEN Raise(Item(asel.t).err, <<>>, ev2)
             ELSE Return({"logit"}, action_type, Item(asel.t).i, NoTensor, ev2) :
                asel \in (IF sample_action_type = "normal"
                          THEN Multinomial(action_args_logit.t)
                          ELSE {ArgmaxDim1(action_args_logit.t)})}

\* lines 122-143: the selection of the action type (line 123 / 133), then of its argument;
\* the set of the outcomes the call can have
actor_select(s, obs_embedding, encoded_obs, sample_action_type, action_type_logit, ev) ==
    IF sample_action_type \notin {"normal", "argmax"}
    THEN {Raise("UnboundLocalError", <<"action_type">>, ev)}
    ELSE UNION {actor_select_args(s, obs_embedding, encoded_obs, sample_action_type,
                   action_type_logit, sel, ev) :
                   sel \in (IF sample_action_type = "normal"
                            THEN Multinomial(action_type_logit)
                            ELSE {Argmax(action_type_logit)})}

\* the set of the outcomes a call can have (one outcome, unless the generator is drawn from)
compute_actor(s, obs_embedding, encoded_obs, sample_action_type) ==
    IF ~NameBound("sample_action_typein", ActorLocals)
    THEN {NameError("sample_action_typein", <<>>)}
    ELSE IF "actor_action_type" \notin s.attrs
    THEN {AttributeError("actor_action_type", <<>>)}
    ELSE LET action_type_logit == DiscreteHead_forward(s.actor_action_type, obs_embedding)
             ev == <<"actor_action_type">>
         IN IF ~action_type_logit.ok THEN {Raise(action_type_logit.err, <<>>, ev)}
            ELSE actor_select(s, obs_embedding, encoded_obs, sample_action_type,
                              action_type_logit.t, ev)

(***************************************************************************)
(* GenshinVAC.compute_actor_critic                                         *)
(***************************************************************************)
\* lines 162-181, the action type having been selected as sel
actor_critic_select_args(s, obs_embedding, encoded_obs, sample_action_type, action_type_logit, sel, value, ev) ==
    LET it == Item(sel.t)
        action_type == it.i
        select_action_name == action_type_names[action_type]
        select_encoded_obs_name == action_obs_name_map[select_action_name]
        ev2 == Append(ev, select_action_name)
        action_args_logit == ActionArgHead_forward(
                                 s.actor_action_args[select_action_name],
                                 obs_embedding.t, action_type_logit,
                                 encoded_obs.t[select_encoded_obs_name])
    IN IF ~sel.ok THEN {Raise(sel.err, <<>>, ev)}
       ELSE IF ~it.ok THEN {Raise(it.err, <<>>, ev)}
       ELSE IF ~NameBound("action_type_names", ActorLocals)
       THEN {NameError("action_type_names", ev)}
       ELSE IF action_type \notin DOMAIN action_type_names
       THEN {Raise("KeyError", <<"action_type_names">>, ev)}
       ELSE IF ~NameBound("action_obs_name_map", ActorLocals)
       THEN {NameError("action_obs_name_map", ev)}
       ELSE IF select_action_name \notin DOMAIN action_obs_name_map
       THEN {Raise("KeyError", <<"action_obs_name_map">>, ev)}
       ELSE IF "actor_action_args" \notin s.attrs
       THEN {AttributeError("actor_action_args", ev)}
       ELSE IF ~s.actor_action_args[select_action_name].made
       THEN {Raise("KeyError", <<"actor_action_args">>, ev)}
       ELSE IF select_encoded_obs_name \notin encoded_obs.keys
       THEN {Raise("KeyError", <<"encoded_obs">>, ev)}
       ELSE IF ~action_args_logit.ok THEN {Raise(action_args_logit.err, <<>>, ev2)}
       ELSE {IF ~asel.ok THEN Raise(asel.err, <<>>, ev2)
             ELSE IF ~Item(asel.t).ok THEN Raise(Item(asel.t).err, <<>>, ev2)
             ELSE Return({"logit", "value"}, action_type, Item(asel.t).i, value, ev2) :
                asel \in (IF sample_action_type = "normal"
                          THEN Multinomial(action_args_logit.t)
                          ELSE {ArgmaxDim1(action_args_logit.t)})}

\* lines 160-181: the same selection, written out again in compute_actor_critic
actor_critic_select(s, obs_embedding, encoded_obs, sample_action_type, action_type_logit, value, ev) ==
    IF sample_action_type \notin {"normal", "argmax"}
    THEN {Raise("UnboundLocalError", <<"action_type">>, ev)}
    ELSE UNION {actor_critic_select_args(s, obs_embedding, encoded_obs, sample_action_type,
                   action_type_logit, sel, value, ev) :
                   sel \in (IF sample_action_type = "normal"
                            THEN Multinomial(action_type_logit)
                            ELSE {Argmax(action_type_logit)})}

\* the set of the outcomes a call can have
compute_actor_critic(s, obs_embedding, encoded_obs, sample_action_type) ==
    IF "critic_head" \notin s.attrs THEN {AttributeError("critic_head", <<>>)}
    ELSE LET value == RegressionHead_forward(s.critic_head, obs_embedding)
             ev0 == <<"critic_head">>
         IN IF ~value.ok THEN {Raise(value.err, <<>>, ev0)}
            ELSE IF ~NameBound("sample_action_typein", ActorLocals)
            THEN {NameError("sample_action_typein", ev0)}
            ELSE IF "actor_action_type" \notin s.attrs
            THEN {AttributeError("actor_action_type", ev0)}
            ELSE LET action_type_logit ==
                         DiscreteHead_forward(s.actor_action_type, obs_embedding)
                     ev == Append(ev0, "actor_action_type")
                 IN IF ~action_type_logit.ok THEN {Raise(action_type_logit.err, <<>>, ev)}
                    ELSE actor_critic_select(s, obs_embedding, encoded_obs,
                                             sample_action_type,
                                             action_type_logit.t, value.t, ev)

(***************************************************************************)
(* GenshinVAC.forward                                                      *)
(***************************************************************************)
\* the parameters without a default, after self, of the three operations
RequiredPositional ==
    [m \in {"compute_actor", "compute_critic", "compute_actor_critic"} |->
        CASE m = "compute_critic" -> <<"obs_embedding">>
          [] m = "compute_actor" -> <<"obs_embedding", "encoded_obs">>
          [] m = "compute_actor_critic" -> <<"obs_embedding", "encoded_obs">>]

InList(x, l) == \E k \in 1..Len(l) : l[k] = x

\* the names getattr finds on an instance: the methods of the class
Methods == {"forward", "compute_actor", "compute_critic", "compute_actor_critic"}

\* forward without its assertion: the dispatch alone
forward_unchecked(s, inputs, m) ==
    IF m \notin Methods THEN AttributeError(m, <<>>)
    ELSE IF m = "compute_critic" THEN compute_critic(s, inputs)
    ELSE Raise("TypeError", <<m, "missing 1 required positional argument">>, <<>>)

\* assert mode in self.mode, ...; return getattr(self, mode)(inputs)
forward(s, inputs, m) ==
    IF ~InList(m, mode)
    THEN Raise("AssertionError", <<"not support forward mode: {}/{}", m>> \o mode, <<>>)
    ELSE IF Len(RequiredPositional[m]) > 1
    THEN Raise("TypeError",
               <<m, "missing 1 required positional argument", RequiredPositional[m][2]>>, <<>>)
    ELSE compute_critic(s, inputs)

(***************************************************************************)
(* Inputs of the calls.                                                    *)
(***************************************************************************)
\* the tensor of a shape filled by one of two 0/1 patterns
Fill(shp, pat) ==
    [shape |-> shp, data |-> [k \in 1..Prod(shp) |-> (k + pat) % 2]]

Patterns == {0, 1}

\* an observation embedding or an action-type logit: (width,) or (B, width)
RowInputs ==
    {Fill(<<w>>, pat) : w \in Dims, pat \in Patterns}
    \cup {Fill(<<b, w>>, pat) : b \in Batches, w \in Dims, pat \in Patterns}

\* encoded_obs: a dict from obs keys to tensors of shape (B, A, F)
EncodedObs(keys, b, a, f) ==
    [keys |-> keys, t |-> [k \in ObsKeys |-> Fill(<<b, a, f>>, 0)]]

NoEncodedObs == EncodedObs({}, 1, 1, 1)

EncodedObsInputs ==
    {EncodedObs(ObsKeys, 1, MaxArgs, f) : f \in Dims}
    \cup {EncodedObs({"skill_obs"}, MaxBatch, 1, 1)}

SampleActionTypes == {"argmax", "normal", "greedy"}

ForwardModes == {"compute_actor", "compute_critic", "compute_actor_critic", "forward", "compute"}

ConstructorArgs ==
    {[obs_embedding_shape |-> e, action_shape |-> Cardinality(ActionNames),
      n |-> Cardinality(ActionNames), arg_names |-> names,
      encoded_obs_shape |-> [keys |-> ObsKeys, F |-> [k \in ObsKeys |-> f]],
      critic_head_hidden_size |-> c] :
        e \in Dims, c \in Dims, f \in Dims,
        names \in {ActionNames, DOMAIN action_obs_name_map, Excluded}}

NoArgs == [obs_embedding_shape |-> 0, action_shape |-> 0, n |-> 0, arg_names |-> {},
           encoded_obs_shape |-> [keys |-> {}, F |-> [k \in ObsKeys |-> 0]],
           critic_head_hidden_size |-> 0]

(***************************************************************************)
(* The state machine.  self is the GenshinVAC instance being followed (as  *)
(* its __init__ left it: Python allocates the instance before __init__     *)
(* runs, and the methods are callable on whatever the body had set when it *)
(* ended), head a stand-alone ActionArgHead, last the call in hand with its *)
(* arguments and its outcome, until the caller has taken it.  Constructing *)
(* one object drops the other.                                             *)
(***************************************************************************)
NoLast ==
    [op |-> "", p |-> NoArgs, x |-> TensorArg(NoTensor), logit |-> NoTensor,
     part |-> NoTensor, enc |-> NoEncodedObs, sat |-> "", m |-> "",
     out |-> NoCall, res |-> ErrT("")]

Init ==
    /\ self = Blank
    /\ head = NoArgHead
    /\ last = NoLast

Idle == last.op = ""

\* GenshinVAC(...)
Construct ==
    /\ Idle
    /\ \E p \in ConstructorArgs, seed \in Seeds :
        LET r == GenshinVAC_init(p, seed)
        IN /\ self' = r.self
           /\ head' = NoArgHead
           /\ last' = [NoLast EXCEPT !.op = "__init__", !.p = p, !.out = r.out]

\* ActionArgHead(...)
MakeArgHead ==
    /\ Idle
    /\ \E f \in Dims, t \in Dims, h \in Dims, seed \in Seeds :
        /\ head' = ActionArgHead_init(f, h, t, h, seed)
        /\ self' = Blank
        /\ last' = [NoLast EXCEPT !.op = "ActionArgHead.__init__"]

\* head(obs_embedding, action_type_logit, encoded_part_obs), on batched inputs
\* (B, H), (B, T), (B, A, F) or on unbatched ones (H,), (T,), (A, F)
CallArgHead ==
    /\ Idle
    /\ head.made
    /\ \E batched \in BOOLEAN, b \in Batches, a \in ArgCounts,
          f \in Dims, t \in Dims, h \in Dims, pat \in Patterns :
        LET pre == IF batched THEN <<b>> ELSE <<>>
            obs == Fill(pre \o <<h>>, pat)
            logit == Fill(pre \o <<t>>, pat)
            part == Fill(pre \o <<a, f>>, pat)
        IN last' = [NoLast EXCEPT !.op = "ActionArgHead.forward",
                                  !.x = TensorArg(obs), !.logit = logit, !.part = part,
                                  !.res = ActionArgHead_forward(head, obs, logit, part)]
    /\ UNCHANGED <<self, head>>

CallComputeCritic ==
    /\ Idle
    /\ self.alloc
    /\ \E x \in RowInputs :
        last' = [NoLast EXCEPT !.op = "compute_critic", !.x = TensorArg(x),
                               !.out = compute_critic(self, TensorArg(x))]
    /\ UNCHANGED <<self, head>>

CallComputeActor ==
    /\ Idle
    /\ self.alloc
    /\ \E x \in RowInputs, enc \in EncodedObsInputs, sat \in SampleActionTypes :
        \E out \in compute_actor(self, TensorArg(x), enc, sat) :
            last' = [NoLast EXCEPT !.op = "compute_actor", !.x = TensorArg(x), !.enc = enc,
                                   !.sat = sat, !.out = out]
    /\ UNCHANGED <<self, head>>

CallComputeActorCritic ==
    /\ Idle
    /\ self.alloc
    /\ \E x \in RowInputs, enc \in EncodedObsInputs, sat \in SampleActionTypes :
        \E out \in compute_actor_critic(self, TensorArg(x), enc, sat) :
            last' = [NoLast EXCEPT !.op = "compute_actor_critic", !.x = TensorArg(x), !.enc = enc,
                                   !.sat = sat, !.out = out]
    /\ UNCHANGED <<self, head>>

\* forward(inputs, mode) with a tensor or a dict as inputs
CallForward ==
    /\ Idle
    /\ self.alloc
    /\ \E inputs \in {TensorArg(x) : x \in RowInputs} \cup {DictArg}, m \in ForwardModes :
        last' = [NoLast EXCEPT !.op = "forward", !.x = inputs, !.m = m,
                               !.out = forward(self, inputs, m)]
    /\ UNCHANGED <<self, head>>

\* the caller takes the outcome of the call
ReturnToCaller ==
    /\ ~Idle
    /\ last' = NoLast
    /\ UNCHANGED <<self, head>>

Next ==
    \/ Construct
    \/ MakeArgHead
    \/ CallArgHead
    \/ CallComputeCritic
    \/ CallComputeActor
    \/ CallComputeActorCritic
    \/ CallForward
    \/ ReturnToCaller

Spec == Init /\ [][Next]_vars

(***************************************************************************)
(* Properties.                                                             *)
(***************************************************************************)
Recognised == {"argmax", "normal"}
SupportedModes == {"compute_actor", "compute_critic", "compute_actor_critic"}
ActorCall == last.op \in {"compute_actor", "compute_actor_critic"}

\* C1: a compute_actor / compute_actor_critic call whose sample_action_type is
\* neither "argmax" nor "normal" ends in the AssertionError "sample_action_type
\* should be 'argmax' or 'normal'" with no head evaluated, and a call with one of
\* the two recognised values passes the validation and evaluates the action-type head.
C1_SampleTypeValidated ==
    ActorCall =>
        IF last.sat \notin Recognised
        THEN /\ ~last.out.ok
             /\ last.out.err = "AssertionError"
             /\ last.out.msg = <<"sample_action_type should be 'argmax' or 'normal'">>
             /\ last.out.evaluated = <<>>
        ELSE InList("actor_action_type", last.out.evaluated)

\* C2: forward(inputs, mode) with a mode outside the three supported ones ends in
\* an AssertionError whose message names the mode and the supported modes, and no
\* head has been evaluated.
C2_InvalidModeAsserts ==
    (last.op = "forward" /\ last.m \notin SupportedModes) =>
        /\ ~last.out.ok
        /\ last.out.err = "AssertionError"
        /\ InList(last.m, last.out.msg)
        /\ \A sm \in SupportedModes : InList(sm, last.out.msg)
        /\ last.out.evaluated = <<>>

\* C2 witness: forward was called on an instance that has a critic head with the
\* mode "forward" (a method name, yet not a supported mode) and raised the assertion
C2_Witness ==
    /\ last.op = "forward"
    /\ last.m = "forward"
    /\ "critic_head" \in self.attrs
    /\ last.out.err = "AssertionError"

\* C5: constructing GenshinVAC completes, and the names with an argument head are
\* exactly those of action_arg_space other than 'elemental_harmony' and
\* 'end_round', each head sized from encoded_obs_shape at the obs key that
\* action_obs_name_map gives for its name.
C5_ConstructionBuildsArgHeads ==
    (last.op = "__init__") =>
        /\ last.out.ok
        /\ {a \in ActionNames : self.actor_action_args[a].made}
               = last.p.arg_names \ {"elemental_harmony", "end_round"}
        /\ \A a \in last.p.arg_names \ {"elemental_harmony", "end_round"} :
               self.actor_action_args[a].F
                   = last.p.encoded_obs_shape.F[action_obs_name_map[a]]

\* C6: ActionArgHead.forward on obs_embedding (B, H), action_type_logit (B, T) and
\* encoded_part_obs (B, A, F), of the widths the head was built with, returns a
\* logit of shape (B, A) whose entry (b, a) is the dot product of the query of
\* batch element b with the key of argument a of batch element b.
C6_ArgHeadLogitShape ==
    (/\ last.op = "ActionArgHead.forward"
     /\ Len(last.part.shape) = 3
     /\ last.x.t.shape[2] = head.H
     /\ last.logit.shape[2] = head.T
     /\ last.part.shape[3] = head.F) =>
        LET B == last.part.shape[1]
            A == last.part.shape[2]
            key == W_k(head, last.part).t
            query == Add(W_q(head, last.logit).t, last.x.t).t
        IN /\ last.res.ok
           /\ last.res.t.shape = <<B, A>>
           /\ \A b \in 1..B, a \in 1..A :
                last.res.t.data[(b - 1) * A + a]
                    = SumSeq([j \in 1..head.H |->
                          query.data[(b - 1) * head.H + j]
                          * key.data[((b - 1) * A + (a - 1)) * head.H + j]])

\* C7: compute_critic returns one value per batch element for every obs_embedding
\* (B, D) whose width D is the obs_embedding_shape the instance was built with,
\* also when that width differs from critic_head_hidden_size.
C7_CriticValuePerBatchElement ==
    (/\ last.op = "compute_critic"
     /\ "critic_head" \in self.attrs
     /\ Len(last.x.t.shape) = 2
     /\ last.x.t.shape[2] = self.obs_embedding_shape) =>
        /\ last.out.ok
        /\ last.out.keys = {"value"}
        /\ last.out.value.shape = <<last.x.t.shape[1]>>

\* C9: forward(inputs, mode) with a supported mode enters the operation of that
\* name (the call does not fail binding the operation's arguments) and returns its
\* result: 'value' for compute_critic, 'logit' for compute_actor, both for
\* compute_actor_critic.
C9_ForwardDispatches ==
    (last.op = "forward" /\ last.m \in SupportedModes) =>
        /\ ~(last.out.err = "TypeError"
             /\ InList("missing 1 required positional argument", last.out.msg))
        /\ last.out.ok =>
             last.out.keys = (CASE last.m = "compute_critic" -> {"value"}
                                [] last.m = "compute_actor" -> {"logit"}
                                [] last.m = "compute_actor_critic" -> {"logit", "value"})

====
